---------------------------- MODULE Spec2Model ----------------------------
(***************************************************************************)
(* A model of src/tictactoe.py: the in-memory registry of tic-tac-toe      *)
(* games (games, next_game_id), the helpers check_winner, get_empty_cells, *)
(* update_game_status, apply_human_move, apply_computer_move, and the      *)
(* handlers create_game, list_games, make_move and list_moves.             *)
(*                                                                         *)
(* Names of the spec and names of the code:                                *)
(*   createSession = create_game     makeMove  = make_move                 *)
(*   listSessions  = list_games      listMoves = list_moves                *)
(*   InProgress/HumanWon/ComputerWon/Draw =                                *)
(*       "in_progress"/"human_won"/"computer_won"/"draw"                   *)
(*   Empty/Human/Computer cell = " "/"X"/"O"                               *)
(*   SessionNotFound     = HTTPException 404 "Game not found."             *)
(*   GameAlreadyFinished = HTTPException 400 "Game already finished ..."   *)
(*   InvalidCoordinate   = HTTPException 400 "Coordinates must be ..."     *)
(*   CellOccupied        = HTTPException 400 "Cell is already occupied."   *)
(***************************************************************************)
EXTENDS Integers, Sequences, FiniteSets, TLC

VARIABLES
    heap,           \* the Game objects, in the order of their construction
    games,          \* the dict games: game_id -> a Game object   (line 63)
    next_game_id,   \* the global next_game_id                    (line 64)
    last,           \* the call that is returning: operation, game_id, outcome
    threads         \* the handler each worker thread runs, and its locals

vars == <<heap, games, next_game_id, last, threads>>

\* The games, the registry and the counter.
Kept == <<heap, games, next_game_id>>

---------------------------------------------------------------------------
(* Bounds of the model. *)

\* create_game is called at most MaxGames times.
MaxGames == 2

\* Spec lets at most MaxRounds make_move calls succeed, over all games.
MaxRounds == 1

\* SpecThreads runs the handlers on NThreads worker threads.
NThreads == 2

\* SpecDirect stops placing marks on a board that holds MaxMarks marks.
MaxMarks == 4

\* In SpecTimes datetime.utcnow() returns a time of 0 .. MaxTime.
MaxTime == 1

\* The coordinates a request carries: in range, and out of range on both
\* sides.
Coords == -1 .. 3

\* The identifiers a request carries: those create_game can issue.
GameIds == 1 .. MaxGames

Threads == 1 .. NThreads

\* The cells of the requests the threads of SpecThreads handle.
ThreadCells == {<<0, 0>>, <<0, 1>>}

---------------------------------------------------------------------------
(* The board and the helpers on it. *)

Rng == 0 .. 2

Symbols == {" ", "X", "O"}

\* Game.__init__: [[" " for _ in range(3)] for _ in range(3)]
EmptyBoard == [r \in Rng |-> [c \in Rng |-> " "]]

\* A Python list index on a list of length 3: -3..-1 count from the end.
PyIndex(i) == IF i < 0 THEN i + 3 ELSE i

\* board[x][y] = symbol
SetCell(board, x, y, symbol) ==
    [board EXCEPT ![PyIndex(x)][PyIndex(y)] = symbol]

\* board[x][y]
Cell(board, x, y) == board[PyIndex(x)][PyIndex(y)]

check_winner(board, symbol) ==
    \/ \E r \in Rng : \A c \in Rng : board[r][c] = symbol
    \/ \E c \in Rng : \A r \in Rng : board[r][c] = symbol
    \/ (board[0][0] = board[1][1] /\ board[1][1] = board[2][2]
            /\ board[2][2] = symbol)
    \/ (board[0][2] = board[1][1] /\ board[1][1] = board[2][0]
            /\ board[2][0] = symbol)

\* The cells in the order of "for r in range(3) for c in range(3)".
RowMajor == [i \in 1 .. 9 |-> <<(i - 1) \div 3, (i - 1) % 3>>]

IsEmptyCell(board, rc) == board[rc[1]][rc[2]] = " "

get_empty_cells(board) ==
    SelectSeq(RowMajor, LAMBDA rc : IsEmptyCell(board, rc))

\* StatusOf with the check of O before the check of X.
StatusOf_ComputerFirst(board) ==
    IF check_winner(board, "O") THEN "computer_won"
    ELSE IF check_winner(board, "X") THEN "human_won"
    ELSE IF get_empty_cells(board) = << >> THEN "draw"
    ELSE "in_progress"

\* StatusOf with the check of the empty cells before the checks of the
\* winners.
StatusOf_DrawFirst(board) ==
    IF get_empty_cells(board) = << >> THEN "draw"
    ELSE IF check_winner(board, "X") THEN "human_won"
    ELSE IF check_winner(board, "O") THEN "computer_won"
    ELSE "in_progress"

\* StatusOf without the check of lines 101-103.
StatusOf_NoDraw(board) ==
    IF check_winner(board, "X") THEN "human_won"
    ELSE IF check_winner(board, "O") THEN "computer_won"
    ELSE "in_progress"

\* The status update_game_status assigns.
StatusOf(board) ==
    IF check_winner(board, "X") THEN "human_won"
    ELSE IF check_winner(board, "O") THEN "computer_won"
    ELSE IF get_empty_cells(board) = << >> THEN "draw"
    ELSE "in_progress"

update_game_status(game) == [game EXCEPT !.status = StatusOf(game.board)]

---------------------------------------------------------------------------
(* A game and the two move operations. *)

\* Game.__init__ (updated_at and the moves' timestamps are written and
\* never read by the code; they are left out).
NewGame(game_id, t) ==
    [game_id |-> game_id, board |-> EmptyBoard, moves |-> << >>,
     status |-> "in_progress", created_at |-> t]

MoveRec(n, player, x, y) ==
    [move_number |-> n, player |-> player, x |-> x, y |-> y]

\* HumanMoveError without the check of lines 113-115.
HumanMoveError_NoOccupiedCheck(game, x, y) ==
    IF ~(0 <= x /\ x <= 2 /\ 0 <= y /\ y <= 2) THEN "InvalidCoordinate"
    ELSE "ok"

\* HumanMoveError with "x <= 2 and y <= 2" for the check of line 110.
HumanMoveError_NoLowerBound(game, x, y) ==
    IF ~(x <= 2 /\ y <= 2) THEN "InvalidCoordinate"
    ELSE IF Cell(game.board, x, y) # " " THEN "CellOccupied"
    ELSE "ok"

\* What apply_human_move raises: "ok" when it raises nothing.
HumanMoveError(game, x, y) ==
    IF ~(0 <= x /\ x <= 2 /\ 0 <= y /\ y <= 2) THEN "InvalidCoordinate"
    ELSE IF Cell(game.board, x, y) # " " THEN "CellOccupied"
    ELSE "ok"

\* apply_human_move past its two checks.
PlaceHuman(game, x, y) ==
    [game EXCEPT !.board = SetCell(game.board, x, y, "X"),
                 !.moves = Append(game.moves,
                                  MoveRec(Len(game.moves) + 1, "human", x, y))]

\* PlaceComputer with move_number = len(game.moves).
PlaceComputer_NumberOff(game, k) ==
    LET rc == get_empty_cells(game.board)[k]
    IN  [game EXCEPT !.board = SetCell(game.board, rc[1], rc[2], "O"),
                     !.moves = Append(game.moves,
                                      MoveRec(Len(game.moves), "computer",
                                              rc[1], rc[2]))]

\* PlaceComputer with random.choice over all the cells of the board.
PlaceComputer_AnyCell(game, k) ==
    LET rc == RowMajor[k]
    IN  [game EXCEPT !.board = SetCell(game.board, rc[1], rc[2], "O"),
                     !.moves = Append(game.moves,
                                      MoveRec(Len(game.moves) + 1, "computer",
                                              rc[1], rc[2]))]

\* apply_computer_move with random.choice returning empty_cells[k].
PlaceComputer(game, k) ==
    LET rc == get_empty_cells(game.board)[k]
    IN  [game EXCEPT !.board = SetCell(game.board, rc[1], rc[2], "O"),
                     !.moves = Append(game.moves,
                                      MoveRec(Len(game.moves) + 1, "computer",
                                              rc[1], rc[2]))]

\* apply_computer_move that always takes the return of line 137.
apply_computer_move_NoMove(game) == {game}

\* The games apply_computer_move may leave: the game itself when no cell is
\* empty, and one game per empty cell otherwise.
apply_computer_move(game) ==
    IF get_empty_cells(game.board) = << >> THEN {game}
    ELSE {PlaceComputer(game, k) : k \in 1 .. Len(get_empty_cells(game.board))}

---------------------------------------------------------------------------
(* The handlers, each as one step. *)

\* The Game object the registry holds under game_id.
Game(game_id) == heap[games[game_id]]

\* No call is returning: the next request may be made.
NoCall == [op |-> "none", game_id |-> 0, result |-> "ok", value |-> << >>]

\* A call that is returning with the list value (the empty list for the
\* handlers whose response the model does not keep), or raising result.
CallValue(op, game_id, result, value) ==
    [op |-> op, game_id |-> game_id, result |-> result, value |-> value]

Call(op, game_id, result) == CallValue(op, game_id, result, << >>)

\* d[k] = v on a dict.
Put(d, k, v) == [i \in (DOMAIN d) \cup {k} |-> IF i = k THEN v ELSE d[i]]

\* A thread that runs no handler. A thread in a handler has its place pc,
\* the arguments game_id, x, y, and the locals: game (a Game object, by its
\* place in heap), the move_number n, the computer's cell cx, cy, the status
\* st that update_game_status is about to assign, and whether it was called
\* after the human or after the computer move.
IdleThread ==
    [pc |-> "idle", op |-> "none", game_id |-> 0, x |-> 0, y |-> 0,
     game |-> 0, n |-> 0, cx |-> 0, cy |-> 0, st |-> "none",
     after |-> "none"]

Init ==
    /\ heap = << >>
    /\ games = << >>
    /\ next_game_id = 1
    /\ last = NoCall
    /\ threads = [t \in Threads |-> IdleThread]

\* create_game without "next_game_id += 1".
create_game_NoIncrement(t) ==
    /\ heap' = Append(heap, NewGame(next_game_id, t))
    /\ games' = Put(games, next_game_id, Len(heap) + 1)
    /\ next_game_id' = next_game_id
    /\ last' = Call("create_game", next_game_id, "ok")
    /\ UNCHANGED threads

\* create_game, with t the time datetime.utcnow() returns in Game.__init__.
create_game(t) ==
    /\ heap' = Append(heap, NewGame(next_game_id, t))
    /\ games' = Put(games, next_game_id, Len(heap) + 1)
    /\ next_game_id' = next_game_id + 1
    /\ last' = Call("create_game", next_game_id, "ok")
    /\ UNCHANGED threads

\* MakeMoveError without the status check of lines 189-193.
MakeMoveError_NoStatusCheck(game_id, x, y) ==
    IF game_id \notin DOMAIN games THEN "SessionNotFound"
    ELSE HumanMoveError(Game(game_id), x, y)

\* MakeMoveError with the coordinates validated before the lookup of
\* lines 184-185.
MakeMoveError_CoordsFirst(game_id, x, y) ==
    IF ~(0 <= x /\ x <= 2 /\ 0 <= y /\ y <= 2) THEN "InvalidCoordinate"
    ELSE IF game_id \notin DOMAIN games THEN "SessionNotFound"
    ELSE IF Game(game_id).status # "in_progress" THEN "GameAlreadyFinished"
    ELSE HumanMoveError(Game(game_id), x, y)

\* What make_move raises before it changes anything: "ok" when nothing.
MakeMoveError(game_id, x, y) ==
    IF game_id \notin DOMAIN games THEN "SessionNotFound"
    ELSE IF Game(game_id).status # "in_progress" THEN "GameAlreadyFinished"
    ELSE HumanMoveError(Game(game_id), x, y)

\* MakeMoveGames without the return of lines 199-200.
MakeMoveGames_NoEarlyReturn(game, x, y) ==
    {update_game_status(g) :
        g \in apply_computer_move(update_game_status(PlaceHuman(game, x, y)))}

\* MakeMoveGames with the status left as it was after the human move, so
\* that the computer moves whatever the human move has made.
MakeMoveGames_NoHumanStatus(game, x, y) ==
    {update_game_status(g) : g \in apply_computer_move(PlaceHuman(game, x, y))}

\* MakeMoveGames without the computer move of lines 203-204.
MakeMoveGames_NoComputer(game, x, y) ==
    {update_game_status(PlaceHuman(game, x, y))}

\* The games a make_move that raises nothing may leave.
MakeMoveGames(game, x, y) ==
    LET h == update_game_status(PlaceHuman(game, x, y))
    IN  IF h.status # "in_progress" THEN {h}
        ELSE {update_game_status(g) : g \in apply_computer_move(h)}

make_move(game_id, x, y) ==
    /\ last' = Call("make_move", game_id, MakeMoveError(game_id, x, y))
    /\ IF MakeMoveError(game_id, x, y) # "ok"
       THEN heap' = heap
       ELSE \E g \in MakeMoveGames(Game(game_id), x, y) :
                heap' = [heap EXCEPT ![games[game_id]] = g]
    /\ UNCHANGED <<games, next_game_id, threads>>

\* apply_human_move called on the Game of game_id directly, as a test of the
\* helper calls it (the handlers call it from make_move only).
apply_human_move(game_id, x, y) ==
    /\ game_id \in DOMAIN games
    /\ last' = Call("apply_human_move", game_id,
                    HumanMoveError(Game(game_id), x, y))
    /\ IF HumanMoveError(Game(game_id), x, y) # "ok"
       THEN heap' = heap
       ELSE heap' = [heap EXCEPT ![games[game_id]] =
                                     PlaceHuman(Game(game_id), x, y)]
    /\ UNCHANGED <<games, next_game_id, threads>>

\* update_game_status called directly on a Game built with the given board,
\* as a test of the helper calls it; the Game is not in the registry.
test_update_game_status(board) ==
    /\ heap' = Append(heap, update_game_status(
                                [NewGame(0, 0) EXCEPT !.board = board]))
    /\ last' = Call("update_game_status", 0, "ok")
    /\ UNCHANGED <<games, next_game_id, threads>>

\* sorted(seq, key=...), with keys[i] the key of seq[i]: Python's sort is
\* stable, so an element goes after the elements of its key that precede it.
\* The pairs are <<key, element>>.
InsertPair(ps, p) ==
    LET k == Cardinality({i \in 1 .. Len(ps) : ps[i][1] <= p[1]})
    IN  SubSeq(ps, 1, k) \o <<p>> \o SubSeq(ps, k + 1, Len(ps))

RECURSIVE SortPairs(_)
SortPairs(ps) ==
    IF ps = << >> THEN << >>
    ELSE InsertPair(SortPairs(SubSeq(ps, 1, Len(ps) - 1)), ps[Len(ps)])

sorted(seq, keys) ==
    LET ps == SortPairs([i \in 1 .. Len(seq) |-> <<keys[i], seq[i]>>])
    IN  [i \in 1 .. Len(seq) |-> ps[i][2]]

\* games.values(): a dict gives its values in the order its keys were first
\* stored, which is the order of the keys, as create_game stores the keys
\* next_game_id takes.
RECURSIVE KeysInOrder(_)
KeysInOrder(keys) ==
    IF keys = {} THEN << >>
    ELSE LET k == CHOOSE i \in keys : \A j \in keys : i <= j
         IN  <<k>> \o KeysInOrder(keys \ {k})

GamesValues ==
    [i \in 1 .. Cardinality(DOMAIN games) |-> Game(KeysInOrder(DOMAIN games)[i])]

GameSummary(g) ==
    [game_id |-> g.game_id, created_at |-> g.created_at, status |-> g.status]

\* ListGamesValue without sorted(...): the values in the order of the dict.
ListGamesValue_Unsorted ==
    [i \in 1 .. Len(GamesValues) |-> GameSummary(GamesValues[i])]

\* What list_games returns.
ListGamesValue ==
    LET gs == sorted(GamesValues,
                     [i \in 1 .. Len(GamesValues) |-> GamesValues[i].created_at])
    IN  [i \in 1 .. Len(gs) |-> GameSummary(gs[i])]

list_games ==
    /\ last' = CallValue("list_games", 0, "ok", ListGamesValue)
    /\ UNCHANGED <<heap, games, next_game_id, threads>>

\* ListMovesValue with sorted(..., reverse=True).
ListMovesValue_Descending(game_id) ==
    LET moves == Game(game_id).moves
    IN  sorted(moves, [i \in 1 .. Len(moves) |-> 0 - moves[i].move_number])

\* What list_moves returns when it raises nothing.
ListMovesValue(game_id) ==
    LET moves == Game(game_id).moves
    IN  sorted(moves, [i \in 1 .. Len(moves) |-> moves[i].move_number])

list_moves(game_id) ==
    /\ IF game_id \notin DOMAIN games
       THEN last' = Call("list_moves", game_id, "SessionNotFound")
       ELSE last' = CallValue("list_moves", game_id, "ok",
                              ListMovesValue(game_id))
    /\ UNCHANGED <<heap, games, next_game_id, threads>>

---------------------------------------------------------------------------
(* Spec: the registry under requests made one after another, each answered *)
(* before the next is made, with at most MaxGames games and MaxRounds      *)
(* successful moves.                                                       *)

\* The rounds played in a game: the successful make_move calls on it.
Rounds(game) == (Len(game.moves) + 1) \div 2

RECURSIVE SumRounds(_)
SumRounds(n) == IF n = 0 THEN 0 ELSE Rounds(heap[n]) + SumRounds(n - 1)

\* In Spec the clock reads one tick more at each construction.
Create ==
    /\ last = NoCall
    /\ Len(heap) < MaxGames
    /\ create_game(Len(heap))

Move ==
    \E game_id \in GameIds, x \in Coords, y \in Coords :
        /\ last = NoCall
        /\ MakeMoveError(game_id, x, y) = "ok" => SumRounds(Len(heap)) < MaxRounds
        /\ make_move(game_id, x, y)

\* The caller receives the response; the next request may follow.
Return ==
    /\ last # NoCall
    /\ last' = NoCall
    /\ UNCHANGED <<heap, games, next_game_id, threads>>

Next == Create \/ Move \/ Return

Spec == Init /\ [][Next]_vars

---------------------------------------------------------------------------
(* SpecGame: one game, played to its end by moves that succeed.            *)

CreateOne ==
    /\ heap = << >>
    /\ create_game(0)

PlayOne ==
    \E x \in Rng, y \in Rng :
        /\ MakeMoveError(1, x, y) = "ok"
        /\ make_move(1, x, y)

NextGame == CreateOne \/ PlayOne

SpecGame == Init /\ [][NextGame]_vars

---------------------------------------------------------------------------
(* SpecLive: one game with a human who does not stop: while a make_move   *)
(* that succeeds can be made, one is made eventually. The first cell of    *)
(* the human is a corner, the middle of a side or the centre: a rotation   *)
(* or a reflection of the board takes any other first cell to one of       *)
(* these, and a line of the board to a line. Every other choice, of the    *)
(* human and of random.choice, is free.                                    *)

FirstCells == {<<0, 0>>, <<0, 1>>, <<1, 1>>}

PlayLive ==
    \E x \in Rng, y \in Rng :
        /\ 1 \in DOMAIN games
        /\ Game(1).moves = << >> => <<x, y>> \in FirstCells
        /\ MakeMoveError(1, x, y) = "ok"
        /\ make_move(1, x, y)

NextLive == CreateOne \/ PlayLive

SpecLive == Init /\ [][NextLive]_vars /\ WF_vars(PlayLive)

---------------------------------------------------------------------------
(* SpecEnd: SpecGame, and every request on the game once it has ended.     *)

AfterEnd ==
    \E x \in Coords, y \in Coords :
        /\ 1 \in DOMAIN games
        /\ Game(1).status # "in_progress"
        /\ make_move(1, x, y)

NextEnd == NextGame \/ AfterEnd

SpecEnd == Init /\ [][NextEnd]_vars

---------------------------------------------------------------------------
(* SpecRule: SpecGame, or else one call of update_game_status on a Game    *)
(* with any board whatsoever.                                              *)

Boards == [Rng -> [Rng -> Symbols]]

TestStatus ==
    /\ heap = << >>
    /\ \E board \in Boards : test_update_game_status(board)

NextRule == NextGame \/ TestStatus

SpecRule == Init /\ [][NextRule]_vars

---------------------------------------------------------------------------
(* SpecDirect: one game under make_move requests and direct calls of       *)
(* apply_human_move, until the board holds MaxMarks marks.                 *)

Marks(board) == 9 - Len(get_empty_cells(board))

MoveDirect ==
    \E x \in Coords, y \in Coords :
        /\ last = NoCall
        /\ 1 \in DOMAIN games
        /\ MakeMoveError(1, x, y) = "ok" => Marks(Game(1).board) < MaxMarks
        /\ make_move(1, x, y)

HumanDirect ==
    \E x \in Coords, y \in Coords :
        /\ last = NoCall
        /\ 1 \in DOMAIN games
        /\ HumanMoveError(Game(1), x, y) = "ok" => Marks(Game(1).board) < MaxMarks
        /\ apply_human_move(1, x, y)

NextDirect == (last = NoCall /\ CreateOne) \/ MoveDirect \/ HumanDirect \/ Return

SpecDirect == Init /\ [][NextDirect]_vars

---------------------------------------------------------------------------
(* SpecCalls: Spec, and the direct calls of apply_human_move, on the games *)
(* of the registry, that the helper refuses: they are the ones that leave  *)
(* the registry in a state requests alone reach.                           *)

HumanCall ==
    \E game_id \in GameIds, x \in Coords, y \in Coords :
        /\ last = NoCall
        /\ game_id \in DOMAIN games
        /\ HumanMoveError(Game(game_id), x, y) # "ok"
        /\ apply_human_move(game_id, x, y)

NextCalls == Next \/ HumanCall

SpecCalls == Init /\ [][NextCalls]_vars

---------------------------------------------------------------------------
(* SpecReads: Spec, and the two reads list_moves and list_games.           *)

ListMoves ==
    \E game_id \in GameIds :
        /\ last = NoCall
        /\ list_moves(game_id)

ListGames ==
    /\ last = NoCall
    /\ list_games

NextReads == Next \/ ListMoves \/ ListGames

SpecReads == Init /\ [][NextReads]_vars

---------------------------------------------------------------------------
(* SpecTimes: games created at any times of the clock, in any order of the *)
(* times (the clock of datetime.utcnow() may stand still or be set back),  *)
(* list_games, and the first game played to its end with the human on the  *)
(* cells of row 0, before, between and after the creations of the others.  *)

Times == 0 .. MaxTime

CreateAt ==
    \E t \in Times :
        /\ last = NoCall
        /\ Len(heap) < MaxGames
        /\ create_game(t)

MoveAt ==
    \E y \in Rng :
        /\ last = NoCall
        /\ MakeMoveError(1, 0, y) = "ok"
        /\ make_move(1, 0, y)

NextTimes == CreateAt \/ MoveAt \/ ListGames \/ Return

SpecTimes == Init /\ [][NextTimes]_vars

---------------------------------------------------------------------------
(* SpecThreads: the handlers run by worker threads that take no lock, as   *)
(* the handlers are plain functions ("def") served from a thread pool. A   *)
(* step is one statement of the handler, or several when all but one of    *)
(* them touch the thread's locals only; "next_game_id += 1" is a read and  *)
(* a write; check_winner and get_empty_cells read the board in one step.   *)
(* A thread starts create_game while fewer than MaxGames games are made or *)
(* in the making, and make_move while the logs of the games hold fewer     *)
(* than MaxRounds rounds.                                                  *)

Set(t, thread) ==
    /\ threads' = [threads EXCEPT ![t] = thread]
    /\ last' = last

At(t, pc) == threads[t].pc = pc

\* The handler of thread t raises or returns: result is what it raised, or
\* "ok". The thread is free for the next request; the response is not kept.
Finish(t, result) ==
    /\ result \in {"ok", "SessionNotFound", "GameAlreadyFinished",
                   "InvalidCoordinate", "CellOccupied"}
    /\ Set(t, IdleThread)

Creating == {t \in Threads : threads[t].op = "create_game"}

StartCreate(t) ==
    /\ At(t, "idle")
    /\ Len(heap) + Cardinality(Creating) < MaxGames
    /\ Set(t, [IdleThread EXCEPT !.pc = "cg_read", !.op = "create_game"])
    /\ UNCHANGED Kept

\* line 161: game_id = next_game_id
CgRead(t) ==
    /\ At(t, "cg_read")
    /\ Set(t, [threads[t] EXCEPT !.pc = "cg_load", !.game_id = next_game_id])
    /\ UNCHANGED Kept

\* line 162, the read of next_game_id
CgLoad(t) ==
    /\ At(t, "cg_load")
    /\ Set(t, [threads[t] EXCEPT !.pc = "cg_store", !.n = next_game_id])
    /\ UNCHANGED Kept

\* line 162, the write of next_game_id
CgStore(t) ==
    /\ At(t, "cg_store")
    /\ next_game_id' = threads[t].n + 1
    /\ Set(t, [threads[t] EXCEPT !.pc = "cg_put", !.n = 0])
    /\ UNCHANGED <<heap, games>>

\* lines 164-167: the Game is built, stored in games and returned. The clock
\* reads one tick more at each construction.
CgPut(t) ==
    /\ At(t, "cg_put")
    /\ heap' = Append(heap, NewGame(threads[t].game_id, Len(heap)))
    /\ games' = Put(games, threads[t].game_id, Len(heap) + 1)
    /\ Finish(t, "ok")
    /\ UNCHANGED next_game_id

StartMove(t) ==
    \E game_id \in GameIds, xy \in ThreadCells :
        /\ At(t, "idle")
        /\ SumRounds(Len(heap)) < MaxRounds
        /\ Set(t, [IdleThread EXCEPT !.pc = "mm_lookup", !.op = "make_move",
                                     !.game_id = game_id,
                                     !.x = xy[1], !.y = xy[2]])
        /\ UNCHANGED Kept

\* lines 184-187
MmLookup(t) ==
    /\ At(t, "mm_lookup")
    /\ IF threads[t].game_id \notin DOMAIN games
       THEN Finish(t, "SessionNotFound")
       ELSE Set(t, [threads[t] EXCEPT !.pc = "mm_status",
                                      !.game = games[threads[t].game_id]])
    /\ UNCHANGED Kept

\* lines 189-193
MmStatus(t) ==
    /\ At(t, "mm_status")
    /\ IF heap[threads[t].game].status # "in_progress"
       THEN Finish(t, "GameAlreadyFinished")
       ELSE Set(t, [threads[t] EXCEPT !.pc = "ah_check"])
    /\ UNCHANGED Kept

\* lines 110-115
AhCheck(t) ==
    /\ At(t, "ah_check")
    /\ LET e == HumanMoveError(heap[threads[t].game], threads[t].x, threads[t].y)
       IN  IF e # "ok" THEN Finish(t, e)
           ELSE Set(t, [threads[t] EXCEPT !.pc = "ah_place"])
    /\ UNCHANGED Kept

\* AhPlace with one board shared by all the Game objects, as a class
\* attribute "board" of Game would be.
AhPlace_SharedBoard(t) ==
    /\ At(t, "ah_place")
    /\ heap' = [n \in 1 .. Len(heap) |->
                   [heap[n] EXCEPT !.board =
                                SetCell(@, threads[t].x, threads[t].y, "X")]]
    /\ Set(t, [threads[t] EXCEPT !.pc = "ah_len"])
    /\ UNCHANGED <<games, next_game_id>>

\* line 118
AhPlace(t) ==
    /\ At(t, "ah_place")
    /\ heap' = [heap EXCEPT ![threads[t].game].board =
                                SetCell(@, threads[t].x, threads[t].y, "X")]
    /\ Set(t, [threads[t] EXCEPT !.pc = "ah_len"])
    /\ UNCHANGED <<games, next_game_id>>

\* line 120
AhLen(t) ==
    /\ At(t, "ah_len")
    /\ Set(t, [threads[t] EXCEPT !.pc = "ah_append",
                                 !.n = Len(heap[threads[t].game].moves) + 1])
    /\ UNCHANGED Kept

\* lines 121-129, and the call of update_game_status of line 197
AhAppend(t) ==
    /\ At(t, "ah_append")
    /\ heap' = [heap EXCEPT ![threads[t].game].moves =
                                Append(@, MoveRec(threads[t].n, "human",
                                                  threads[t].x, threads[t].y))]
    /\ Set(t, [threads[t] EXCEPT !.pc = "us_x", !.n = 0, !.after = "human"])
    /\ UNCHANGED <<games, next_game_id>>

\* line 93
UsX(t) ==
    /\ At(t, "us_x")
    /\ IF check_winner(heap[threads[t].game].board, "X")
       THEN Set(t, [threads[t] EXCEPT !.pc = "us_set", !.st = "human_won"])
       ELSE Set(t, [threads[t] EXCEPT !.pc = "us_o"])
    /\ UNCHANGED Kept

\* line 97
UsO(t) ==
    /\ At(t, "us_o")
    /\ IF check_winner(heap[threads[t].game].board, "O")
       THEN Set(t, [threads[t] EXCEPT !.pc = "us_set", !.st = "computer_won"])
       ELSE Set(t, [threads[t] EXCEPT !.pc = "us_empty"])
    /\ UNCHANGED Kept

\* line 101
UsEmpty(t) ==
    /\ At(t, "us_empty")
    /\ IF get_empty_cells(heap[threads[t].game].board) = << >>
       THEN Set(t, [threads[t] EXCEPT !.pc = "us_set", !.st = "draw"])
       ELSE Set(t, [threads[t] EXCEPT !.pc = "us_set", !.st = "in_progress"])
    /\ UNCHANGED Kept

\* lines 94, 98, 102, 105, and the return to make_move: to line 199 after
\* the human move, and to the return of line 206 after the computer move
UsSet(t) ==
    /\ At(t, "us_set")
    /\ heap' = [heap EXCEPT ![threads[t].game].status = threads[t].st]
    /\ IF threads[t].after = "human"
       THEN Set(t, [threads[t] EXCEPT !.pc = "mm_check", !.st = "none",
                                      !.after = "none"])
       ELSE Finish(t, "ok")
    /\ UNCHANGED <<games, next_game_id>>

\* lines 199-200
MmCheck(t) ==
    /\ At(t, "mm_check")
    /\ IF heap[threads[t].game].status # "in_progress"
       THEN Finish(t, "ok")
       ELSE Set(t, [threads[t] EXCEPT !.pc = "ac_choose"])
    /\ UNCHANGED Kept

\* lines 135-139; when no cell is empty, the return of line 137 and the call
\* of update_game_status of line 204
AcChoose(t) ==
    /\ At(t, "ac_choose")
    /\ LET cells == get_empty_cells(heap[threads[t].game].board)
       IN  IF cells = << >>
           THEN Set(t, [threads[t] EXCEPT !.pc = "us_x", !.after = "computer"])
           ELSE \E k \in 1 .. Len(cells) :
                    Set(t, [threads[t] EXCEPT !.pc = "ac_place",
                                              !.cx = cells[k][1],
                                              !.cy = cells[k][2]])
    /\ UNCHANGED Kept

\* line 140
AcPlace(t) ==
    /\ At(t, "ac_place")
    /\ heap' = [heap EXCEPT ![threads[t].game].board =
                                SetCell(@, threads[t].cx, threads[t].cy, "O")]
    /\ Set(t, [threads[t] EXCEPT !.pc = "ac_len"])
    /\ UNCHANGED <<games, next_game_id>>

\* line 142
AcLen(t) ==
    /\ At(t, "ac_len")
    /\ Set(t, [threads[t] EXCEPT !.pc = "ac_append",
                                 !.n = Len(heap[threads[t].game].moves) + 1])
    /\ UNCHANGED Kept

\* lines 143-151, and the call of update_game_status of line 204
AcAppend(t) ==
    /\ At(t, "ac_append")
    /\ heap' = [heap EXCEPT ![threads[t].game].moves =
                                Append(@, MoveRec(threads[t].n, "computer",
                                                  threads[t].cx, threads[t].cy))]
    /\ Set(t, [threads[t] EXCEPT !.pc = "us_x", !.n = 0, !.cx = 0, !.cy = 0,
                                 !.after = "computer"])
    /\ UNCHANGED <<games, next_game_id>>

NextThreads ==
    \E t \in Threads :
        \/ StartCreate(t) \/ CgRead(t) \/ CgLoad(t) \/ CgStore(t) \/ CgPut(t)
        \/ StartMove(t) \/ MmLookup(t) \/ MmStatus(t)
        \/ AhCheck(t) \/ AhPlace(t) \/ AhLen(t) \/ AhAppend(t)
        \/ UsX(t) \/ UsO(t) \/ UsEmpty(t) \/ UsSet(t)
        \/ MmCheck(t)
        \/ AcChoose(t) \/ AcPlace(t) \/ AcLen(t) \/ AcAppend(t)

SpecThreads == Init /\ [][NextThreads]_vars

---------------------------------------------------------------------------
(* What the claims speak of. *)

Statuses == {"in_progress", "human_won", "computer_won", "draw"}

\* The 8 lines of the board: 3 rows, 3 columns, 2 diagonals.
Lines ==
    {{<<r, c>> : c \in Rng} : r \in Rng}
        \cup {{<<r, c>> : r \in Rng} : c \in Rng}
        \cup {{<<0, 0>>, <<1, 1>>, <<2, 2>>}, {<<0, 2>>, <<1, 1>>, <<2, 0>>}}

HasLine(board, symbol) ==
    \E line \in Lines : \A rc \in line : board[rc[1]][rc[2]] = symbol

NonEmptyCells(board) == {rc \in Rng \X Rng : board[rc[1]][rc[2]] # " "}

\* The status the precedence rule derives from a board.
RuleStatus(board) ==
    CASE HasLine(board, "X") -> "human_won"
      [] ~HasLine(board, "X") /\ HasLine(board, "O") -> "computer_won"
      [] ~HasLine(board, "X") /\ ~HasLine(board, "O")
            /\ NonEmptyCells(board) = Rng \X Rng -> "draw"
      [] OTHER -> "in_progress"

---------------------------------------------------------------------------
(* C1 *)

C1_Refused ==
    \A id \in DOMAIN games :
        Game(id).status # "in_progress" =>
            \A x \in Coords, y \in Coords :
                MakeMoveError(id, x, y) = "GameAlreadyFinished"

C1_Step ==
    \A id \in DOMAIN games :
        /\ id \in DOMAIN games'
        /\ heap'[games'[id]].status \in Statuses
        /\ Game(id).status # "in_progress" =>
              /\ heap'[games'[id]] = Game(id)
              /\ (last'.op = "make_move" /\ last'.game_id = id)
                    => last'.result = "GameAlreadyFinished"

\* C1: a status other than in_progress is absorbing. No step changes the
\* board, the move log or the status of a game whose status is human_won,
\* computer_won or draw; the status of a game changes only from in_progress,
\* and to one of the four statuses; and on such a game make_move ends with
\* GameAlreadyFinished for every x and y of Coords, in range or not, on an
\* occupied cell or not.
C1_Absorbing == [] C1_Refused /\ [][C1_Step]_vars

\* A make_move was refused on a drawn game.
C1_Witness ==
    /\ last = Call("make_move", 1, "GameAlreadyFinished")
    /\ Game(1).status = "draw"

---------------------------------------------------------------------------
(* C2 *)

\* What a make_move run after another leaves in the log of a game: distinct
\* move numbers, and no human move next to a human move.
C2_Log(g) ==
    /\ \A i, j \in 1 .. Len(g.moves) :
          i # j => g.moves[i].move_number # g.moves[j].move_number
    /\ \A i \in 1 .. Len(g.moves) - 1 :
          ~ (g.moves[i].player = "human" /\ g.moves[i + 1].player = "human")

C2_Logs == \A n \in 1 .. Len(heap) : C2_Log(heap[n])

C2_Step ==
    \A n \in 1 .. Len(heap), r \in Rng, c \in Rng :
        heap[n].board[r][c] # " " => heap'[n].board[r][c] = heap[n].board[r][c]

\* C2: make_move calls on one game that overlap in time leave what the calls
\* made one after the other would: no step writes a cell that is not empty,
\* no two moves of a log have the same move_number, and no two human moves
\* are next to each other in a log.
C2_NoInterleaving == [] C2_Logs /\ [][C2_Step]_vars

---------------------------------------------------------------------------
(* C3 *)

\* C3: create_game calls that overlap in time obtain distinct identifiers,
\* and every Game built stays in games under its own game_id: no two Game
\* objects have the same game_id, and games maps the game_id of each to it.
C3_DistinctIds ==
    /\ \A m, n \in 1 .. Len(heap) : m # n => heap[m].game_id # heap[n].game_id
    /\ \A n \in 1 .. Len(heap) :
          /\ heap[n].game_id \in DOMAIN games
          /\ games[heap[n].game_id] = n

---------------------------------------------------------------------------
(* C4 *)

\* C4: in every state, for every game of the registry, the move log is as
\* long as the board has non-empty cells, the i-th move of the log has
\* move_number i, and the players alternate, human first.
C4_MoveLog ==
    \A id \in DOMAIN games :
        LET g == Game(id)
        IN  /\ Len(g.moves) = Cardinality(NonEmptyCells(g.board))
            /\ \A i \in 1 .. Len(g.moves) :
                  /\ g.moves[i].move_number = i
                  /\ g.moves[i].player =
                        (IF i % 2 = 1 THEN "human" ELSE "computer")

\* The log of a full board after a refused make_move.
C4_Witness ==
    /\ last = Call("make_move", 1, "GameAlreadyFinished")
    /\ Len(Game(1).moves) = 9

---------------------------------------------------------------------------
(* C5 *)

\* C5: the status of every Game that make_move or update_game_status has
\* left is the one the precedence rule derives from its board: human_won if
\* X has a line, else computer_won if O has a line, else draw if no cell is
\* empty, else in_progress; human_won also when both X and O have a line.
C5_StatusRule ==
    \A n \in 1 .. Len(heap) :
        /\ heap[n].status = RuleStatus(heap[n].board)
        /\ (HasLine(heap[n].board, "X") /\ HasLine(heap[n].board, "O"))
              => heap[n].status = "human_won"

\* A make_move that the computer's mark has ended.
C5_Witness ==
    /\ last = Call("make_move", 1, "ok")
    /\ Game(1).status = "computer_won"
    /\ HasLine(Game(1).board, "O")

---------------------------------------------------------------------------
(* C6 *)

\* The round a make_move that raised nothing has played, from the game g
\* before it to the game h after it.
C6_Round(g, h) ==
    LET n == Len(g.moves)
    IN  /\ Len(h.moves) > n
        /\ SubSeq(h.moves, 1, n) = g.moves
        /\ h.moves[n + 1].player = "human"
        /\ LET m == h.moves[n + 1]
               b == [g.board EXCEPT ![m.x][m.y] = "X"]
           IN  IF RuleStatus(b) # "in_progress"
               THEN /\ RuleStatus(b) \in {"human_won", "draw"}
                    /\ Len(h.moves) = n + 1
                    /\ h.board = b
               ELSE /\ Len(h.moves) = n + 2
                    /\ h.moves[n + 2].player = "computer"
                    /\ b[h.moves[n + 2].x][h.moves[n + 2].y] = " "
                    /\ h.board =
                          [b EXCEPT ![h.moves[n + 2].x][h.moves[n + 2].y] = "O"]

C6_Step ==
    \A id \in DOMAIN games :
        heap'[games'[id]] # Game(id) => C6_Round(Game(id), heap'[games'[id]])

\* C6: a make_move that raises nothing appends the human move; when the
\* board with the human mark is terminal (human_won or draw) it appends
\* nothing more and places no O, and otherwise it appends exactly one
\* computer move after it, on a cell that was empty.
C6_RoundShape == [][C6_Step]_vars

\* A round the human move has ended: the log has grown to 5 moves.
C6_Witness ==
    /\ last = Call("make_move", 1, "ok")
    /\ Game(1).status = "human_won"
    /\ Len(Game(1).moves) = 5

---------------------------------------------------------------------------
(* C7 *)

C7_Step ==
    \A id \in DOMAIN games :
        (/\ last'.op = "apply_human_move"
         /\ last'.game_id = id
         /\ Game(id).status # "in_progress")
            => (last'.result = "GameAlreadyFinished" /\ heap' = heap)

\* C7: apply_human_move called on a game whose status is not in_progress
\* ends with GameAlreadyFinished and places no mark and appends no move.
C7_DirectRecheck == [][C7_Step]_vars

---------------------------------------------------------------------------
(* C8 *)

\* No step of the action can end otherwise than with the result and with
\* the games, the registry and the counter as they were; and it can end so.
FailsWith(result) == last'.result = result /\ UNCHANGED Kept

C8_Human(id, x, y) ==
    /\ ENABLED (apply_human_move(id, x, y) /\ FailsWith("CellOccupied"))
    /\ ~ ENABLED (apply_human_move(id, x, y) /\ ~ FailsWith("CellOccupied"))

C8_Move(id, x, y) ==
    /\ ENABLED (make_move(id, x, y) /\ FailsWith("CellOccupied"))
    /\ ~ ENABLED (make_move(id, x, y) /\ ~ FailsWith("CellOccupied"))

\* C8: in every state in which a request may be made, for every game and
\* every cell in range that is not empty, apply_human_move on the cell ends
\* with CellOccupied, and so does make_move when the game is in_progress;
\* the call leaves every board, move log and status as it was, so no
\* computer move is made.
C8_CellOccupied ==
    \A id \in DOMAIN games, x \in Rng, y \in Rng :
        (last = NoCall /\ Game(id).board[x][y] # " ") =>
            /\ C8_Human(id, x, y)
            /\ Game(id).status = "in_progress" => C8_Move(id, x, y)

\* A make_move was refused on an occupied cell of a game in progress.
C8_Witness ==
    /\ last = Call("make_move", 1, "CellOccupied")
    /\ Game(1).status = "in_progress"
    /\ Len(Game(1).moves) >= 2

---------------------------------------------------------------------------
(* C9 *)

C9_Human(id, x, y) ==
    /\ ENABLED (apply_human_move(id, x, y) /\ FailsWith("InvalidCoordinate"))
    /\ ~ ENABLED (apply_human_move(id, x, y) /\ ~ FailsWith("InvalidCoordinate"))

C9_Move(id, x, y) ==
    /\ ENABLED (make_move(id, x, y) /\ FailsWith("InvalidCoordinate"))
    /\ ~ ENABLED (make_move(id, x, y) /\ ~ FailsWith("InvalidCoordinate"))

\* C9: in every state in which a request may be made, for every game and
\* every x and y of Coords of which one is outside 0..2 (below or above),
\* apply_human_move ends with InvalidCoordinate, and so does make_move when
\* the game is in_progress, whether or not the cell the indices would reach
\* is occupied; the call leaves every board, move log and status as it was.
C9_InvalidCoordinate ==
    \A id \in DOMAIN games, x \in Coords, y \in Coords :
        (last = NoCall /\ ~ (x \in Rng /\ y \in Rng)) =>
            /\ C9_Human(id, x, y)
            /\ Game(id).status = "in_progress" => C9_Move(id, x, y)

\* A make_move was refused for its coordinates on a board with marks.
C9_Witness ==
    /\ last = Call("make_move", 1, "InvalidCoordinate")
    /\ Game(1).status = "in_progress"
    /\ Len(Game(1).moves) >= 2

---------------------------------------------------------------------------
(* C10 *)

C10_Step ==
    (last = NoCall /\ last'.op = "create_game") =>
        LET id == last'.game_id
        IN  /\ id = Len(heap) + 1
            /\ \A j \in DOMAIN games : j < id
            /\ DOMAIN games' = DOMAIN games \cup {id}
            /\ heap'[games'[id]].game_id = id
            /\ \A r \in Rng, c \in Rng : heap'[games'[id]].board[r][c] = " "
            /\ heap'[games'[id]].moves = << >>
            /\ heap'[games'[id]].status = "in_progress"
            /\ \A j \in DOMAIN games : heap'[games'[j]] = Game(j)

\* C10: with the calls made one after another, the k-th create_game
\* returns game_id k, which is above every identifier of the registry; the
\* registry gains that identifier and no other; the new game has an empty
\* board, an empty move log and status in_progress; and every game created
\* before is as it was.
C10_CreateSession == [][C10_Step]_vars

\* The second game is created after a round was played in the first.
C10_Witness ==
    /\ last = Call("create_game", 2, "ok")
    /\ 2 \in DOMAIN games
    /\ Len(Game(1).moves) = 2

---------------------------------------------------------------------------
(* C11 *)

C11_Step ==
    \A id \in GameIds :
        (id \notin DOMAIN games /\ last'.game_id = id
            /\ last'.op \in {"make_move", "list_moves"})
        => /\ last'.result = "SessionNotFound"
           /\ last'.value = << >>
           /\ UNCHANGED Kept

\* C11: every make_move and every list_moves on a game_id that is not in
\* games (no game is ever removed, so: that create_game never issued) ends
\* with SessionNotFound, whatever x and y are, in range or not, and leaves
\* the Game objects, games and next_game_id as they were.
C11_SessionNotFound == [][C11_Step]_vars

\* make_move was refused on an identifier not issued, next to a game that
\* has been played on.
C11_Witness ==
    /\ last = Call("make_move", 2, "SessionNotFound")
    /\ DOMAIN games = {1}
    /\ Len(Game(1).moves) = 2

---------------------------------------------------------------------------
(* C12 *)

\* C12: in every state of a game played by make_move calls, if the status
\* is draw then no cell is empty, neither X nor O has a complete line and
\* the move log holds exactly 9 moves; and if no cell is empty and neither X
\* nor O has a complete line then the status is draw.
C12_Draw ==
    \A id \in DOMAIN games :
        LET g == Game(id)
            full == NonEmptyCells(g.board) = Rng \X Rng
            noline == ~HasLine(g.board, "X") /\ ~HasLine(g.board, "O")
        IN  /\ g.status = "draw" => full /\ noline /\ Len(g.moves) = 9
            /\ (full /\ noline) => g.status = "draw"

\* A game has ended in a draw.
C12_Witness ==
    /\ last = Call("make_move", 1, "ok")
    /\ Game(1).status = "draw"
    /\ Len(Game(1).moves) = 9

---------------------------------------------------------------------------
(* C13 *)

C13_Step ==
    \A id \in DOMAIN games :
        /\ (last'.op = "list_moves" /\ last'.game_id = id)
           => /\ UNCHANGED Kept
              /\ last'.result = "ok"
              /\ last'.value = Game(id).moves
              /\ \A i \in 1 .. Len(last'.value) - 1 :
                    last'.value[i].move_number < last'.value[i + 1].move_number
        /\ ~(last'.op = "make_move" /\ last'.game_id = id)
           => heap'[games'[id]].moves = Game(id).moves

\* C13: list_moves on a game of the registry changes no Game object, nor
\* games, nor next_game_id; it returns the move log of the game as it is, in
\* the order of insertion, which is the strictly ascending order of
\* move_number; and no step other than a make_move on that game changes the
\* log, so that two list_moves calls with no make_move on the game between
\* them return the same sequence.
C13_ListMoves == [][C13_Step]_vars

\* list_moves has returned a log of two moves.
C13_Witness ==
    /\ last.op = "list_moves"
    /\ last.result = "ok"
    /\ Len(last.value) = 2
    /\ last.value = Game(last.game_id).moves

---------------------------------------------------------------------------
(* C14 *)

\* C14: what list_games returns holds, for each game of the registry, one
\* summary with its game_id, its created_at and its status at the time of
\* the call, and nothing else; and the summaries are in ascending order of
\* created_at (games of equal created_at in either order), in whatever order
\* and at whatever times the games were created and played.
C14_ListGames ==
    last.op = "list_games" =>
        /\ last.result = "ok"
        /\ Len(last.value) = Cardinality(DOMAIN games)
        /\ \A id \in DOMAIN games :
              \E i \in 1 .. Len(last.value) :
                  last.value[i] = [game_id |-> id,
                                   created_at |-> Game(id).created_at,
                                   status |-> Game(id).status]
        /\ \A i, j \in 1 .. Len(last.value) :
              i < j => last.value[i].created_at <= last.value[j].created_at

\* list_games has returned the game created second before the game created
\* first, which the human has won.
C14_Witness ==
    /\ last.op = "list_games"
    /\ Len(last.value) = 2
    /\ last.value[1].game_id = 2
    /\ last.value[2] = [game_id |-> 1, created_at |-> 1, status |-> "human_won"]

---------------------------------------------------------------------------
(* C15 *)

\* The symbol of a player.
SymbolOf(player) == IF player = "human" THEN "X" ELSE "O"

\* From game g to game h: no cell that holds a mark changes; the cells that
\* change are the cells of the moves the step appends to the log, each was
\* empty in g and holds the symbol of its player in h, and they differ from
\* one another.
C15_Cells(g, h) ==
    LET new == Len(g.moves) + 1 .. Len(h.moves)
    IN  /\ \A r \in Rng, c \in Rng :
              /\ g.board[r][c] # " " => h.board[r][c] = g.board[r][c]
              /\ h.board[r][c] # g.board[r][c]
                    => \E i \in new : h.moves[i].x = r /\ h.moves[i].y = c
        /\ \A i \in new :
              /\ h.moves[i].x \in Rng /\ h.moves[i].y \in Rng
              /\ g.board[h.moves[i].x][h.moves[i].y] = " "
              /\ h.board[h.moves[i].x][h.moves[i].y] = SymbolOf(h.moves[i].player)
        /\ \A i, j \in new :
              i # j => <<h.moves[i].x, h.moves[i].y>> # <<h.moves[j].x, h.moves[j].y>>

C15_Step == \A id \in DOMAIN games : C15_Cells(Game(id), heap'[games'[id]])

\* C15: over the make_move calls on a game, a cell changes at most once,
\* from " " to "X" or "O": no step changes a cell that holds a mark, and the
\* computer's move, like the human's, is on a cell that was empty before the
\* call and that the other move of the call did not take.
C15_CellOnce == [][C15_Step]_vars

\* The computer has placed the eighth mark of a game.
C15_Witness ==
    /\ last = Call("make_move", 1, "ok")
    /\ Len(Game(1).moves) = 8
    /\ Game(1).moves[8].player = "computer"
    /\ Game(1).status = "in_progress"

---------------------------------------------------------------------------
(* C16 *)

\* C16: in no state that make_move calls reach do X and O both have a
\* complete line on the board of a game, so update_game_status never finds
\* both and its check of X before O never decides a status.
C16_NoDoubleLine ==
    \A id \in DOMAIN games :
        ~(HasLine(Game(id).board, "X") /\ HasLine(Game(id).board, "O"))

\* The computer has completed a line with its fourth mark, on a board where
\* the human, with four marks, has none.
C16_Witness ==
    /\ last = Call("make_move", 1, "ok")
    /\ Len(Game(1).moves) = 8
    /\ HasLine(Game(1).board, "O")
    /\ ~HasLine(Game(1).board, "X")
    /\ Game(1).status = "computer_won"

---------------------------------------------------------------------------
(* C17 *)

\* Each step is the step of one thread, t, and changes its record.
C17_Step ==
    \A t \in Threads :
        (threads'[t] # threads[t] /\ threads[t].op = "make_move")
        => /\ Len(heap') = Len(heap)
           /\ games' = games
           /\ \A n \in 1 .. Len(heap) :
                 heap[n].game_id # threads[t].game_id => heap'[n] = heap[n]

\* C17: no step of a make_move(game_id, ...), of one that succeeds or of one
\* that fails, and whatever the other threads are doing, changes the board,
\* the move log or the status of a Game of another game_id, nor the
\* registry: what the requests on a game find and leave does not depend on
\* the requests on the other games.
C17_Isolated == [][C17_Step]_vars

\* Two threads are in make_move at once, one on game 1 and one on game 2,
\* and each has placed its X.
C17_Witness ==
    /\ threads[1].op = "make_move" /\ threads[1].game_id = 1
    /\ threads[2].op = "make_move" /\ threads[2].game_id = 2
    /\ threads[1].pc = "ah_len" /\ threads[2].pc = "ah_len"
    /\ games = <<1, 2>>
    /\ heap[1].board # EmptyBoard /\ heap[2].board # EmptyBoard

---------------------------------------------------------------------------
(* C18 *)

\* The log holds at most 9 moves, and a game that has had 5 make_move calls
\* succeed (each appends the human move, and the computer move if any) is
\* not in progress.
C18_Bound ==
    \A id \in DOMAIN games :
        /\ Len(Game(id).moves) <= 9
        /\ Game(id).status = "in_progress"
              => Len(Game(id).moves) % 2 = 0 /\ Rounds(Game(id)) <= 4

C18_Created == 1 \in DOMAIN games

C18_Ended == 1 \in DOMAIN games /\ Game(1).status # "in_progress"

\* C18: whatever cells the human and random.choice pick, a game is not in
\* progress once 5 make_move calls have succeeded on it, with at most 9 moves
\* in its log; and if the human goes on making valid moves while the game is
\* in progress, the game comes to a status other than in_progress.
C18_GameEnds == [] C18_Bound /\ (C18_Created ~> C18_Ended)

\* The human has won with the ninth mark, in the fifth make_move.
C18_Witness ==
    /\ last = Call("make_move", 1, "ok")
    /\ Len(Game(1).moves) = 9
    /\ Rounds(Game(1)) = 5
    /\ Game(1).status = "human_won"

---------------------------------------------------------------------------
(* C19 *)

\* The number of cells of the board that hold symbol.
CountOf(board, symbol) ==
    Cardinality({rc \in Rng \X Rng : board[rc[1]][rc[2]] = symbol})

LastPlayer(g) == IF g.moves = << >> THEN "none" ELSE g.moves[Len(g.moves)].player

\* C19: between make_move calls, a game that is in_progress or computer_won
\* has as many X as O on its board and its log is empty or ends with a
\* computer move; a game that is human_won or draw has one X more than O and
\* its log ends with a human move; so the number of X less the number of O
\* is always 0 or 1.
C19_Parity ==
    \A id \in DOMAIN games :
        LET g == Game(id)
            d == CountOf(g.board, "X") - CountOf(g.board, "O")
        IN  /\ g.status \in {"in_progress", "computer_won"}
                  => d = 0 /\ LastPlayer(g) \in {"none", "computer"}
            /\ g.status \in {"human_won", "draw"}
                  => d = 1 /\ LastPlayer(g) = "human"
            /\ d \in {0, 1}

\* The computer has won with its third mark.
C19_Witness ==
    /\ last = Call("make_move", 1, "ok")
    /\ Game(1).status = "computer_won"
    /\ CountOf(Game(1).board, "O") = 3
    /\ CountOf(Game(1).board, "X") = 3
    /\ LastPlayer(Game(1)) = "computer"

---------------------------------------------------------------------------
(* C20 *)

\* A step from game g to game h that appends to the log is a make_move that
\* succeeds; its human move is the first move appended, and the game at
\* line 199, after the human move and its update_game_status, is AtCheck.
C20_AtCheck(g, h) ==
    LET m == h.moves[Len(g.moves) + 1]
    IN  update_game_status(PlaceHuman(g, m.x, m.y))

C20_Game(g, h) ==
    Len(h.moves) > Len(g.moves) =>
        /\ C20_AtCheck(g, h).status = "in_progress"
              => /\ get_empty_cells(C20_AtCheck(g, h).board) # << >>
                 /\ Len(h.moves) = Len(g.moves) + 2
                 /\ LastPlayer(h) = "computer"
                 /\ Marks(h.board) = Marks(C20_AtCheck(g, h).board) + 1
        /\ C20_AtCheck(g, h).status # "in_progress" => h = C20_AtCheck(g, h)
        /\ h.status = "draw"
              => /\ LastPlayer(h) = "human"
                 /\ Len(h.moves) = 9
                 /\ CountOf(h.board, "X") = 5
        /\ h.status = "computer_won" => LastPlayer(h) = "computer"

C20_Step == \A id \in DOMAIN games : C20_Game(Game(id), heap'[games'[id]])

\* C20: when a make_move goes on to the computer move (the status after the
\* human move is in_progress), the board has an empty cell, so that
\* apply_computer_move does not take its return of line 137 and places
\* exactly one O; a make_move that leaves the status draw has just placed
\* the human's fifth X, the ninth mark, and no O; and a make_move that
\* leaves the status computer_won has just placed an O.
C20_ComputerMoves == [][C20_Step]_vars

\* The computer has moved on the board that the human's fourth X left with
\* two empty cells, and the game goes on.
C20_Witness ==
    /\ last = Call("make_move", 1, "ok")
    /\ Game(1).status = "in_progress"
    /\ Len(get_empty_cells(Game(1).board)) = 1
    /\ LastPlayer(Game(1)) = "computer"

=============================================================================
